---------------------------- MODULE Spec2Model ----------------------------
(***************************************************************************)
(* Order processing system: Stripe webhook ingress, SNS fan-out and the    *)
(* SQS batch consumers (order, email, inventory), with the signature       *)
(* verifier of utils/stripe_helpers.py.                                    *)
(***************************************************************************)
EXTENDS Integers, Sequences, FiniteSets, TLC

VARIABLES
    \* ---- utils/stripe_helpers.py: one call of verify_stripe_webhook_signature
    payload,            \* argument payload
    signature_header,   \* argument signature_header, as its comma-separated elements
    webhook_secret,     \* argument webhook_secret
    current_time,       \* int(time.time()) read by the call
    verified,           \* "pending" before the call, then the code path that returned
    \* ---- handlers/stripe_webhook.py: the webhook ingress
    invocation,         \* the last request handled, with what its collaborators did
    response,           \* statusCode returned for it (0 before any request)
    sns_calls,          \* the sns_client.publish calls made while handling it
    sns,                \* every message accepted by the SNS topic so far
    \* ---- handlers/order_processor.py, email_processor.py, inventory_processor.py
    next_id,            \* messageId the transport gives the next message
    queue,              \* per consumer, the messages visible in its SQS queue
    inv,                \* per consumer, its handler invocation: the batch, the loop
                        \* position, the counters, each item's success, the report
    settled,            \* per consumer, the messages the transport deleted, each with
                        \* the success of its last processing
    orders,             \* the DynamoDB orders table: order_id -> item
    clock,              \* what datetime.utcnow() returns
    outbox,             \* the mails SES accepted
    metrics,            \* per consumer, the calls of put_cloudwatch_metric that the
                        \* code of handler itself made in the invocation in progress
    cloudwatch_up       \* cloudwatch.put_metric_data returns (it raises otherwise)

verifyVars == <<payload, signature_header, webhook_secret, current_time, verified>>
ingressVars == <<invocation, response, sns_calls, sns>>

batchVars == <<next_id, queue, inv, settled, orders, clock, outbox, metrics,
              cloudwatch_up>>

vars == <<verifyVars, ingressVars, batchVars>>

-----------------------------------------------------------------------------
(***************************************************************************)
(* Values                                                                  *)
(***************************************************************************)

\* Longest signature header, in elements.
MaxHeaderLen == 3

\* Default of the parameter tolerance.
Tolerance == 300

Payloads == {"body_a", "body_b"}
Secrets == {"whsec_1", "whsec_2"}
Now == 1000
\* Timestamps on both edges of the tolerance window around Now.
Timestamps == {Now - Tolerance - 1, Now - Tolerance, Now + Tolerance, Now + Tolerance + 1}

Abs(x) == IF x < 0 THEN -x ELSE x

\* The text after "=" of a header element: a decimal number, a hex digest, or
\* anything else.
NumValue(n) == [kind |-> "num", n |-> n, secret |-> "", payload |-> ""]
JunkValue == [kind |-> "junk", n |-> 0, secret |-> "", payload |-> ""]

\* f"{timestamp}.{payload}": the timestamp is printed in decimal, so the first
\* "." separates it from the payload and the pair determines the string.
SignedPayload(timestamp, body) == <<timestamp, body>>

\* hmac.new(secret, signed_payload, sha256).hexdigest(): a digest is determined
\* by the key and the message, and digests of different inputs differ.
HmacSha256Hex(secret, signed) ==
    [kind |-> "mac", n |-> signed[1], secret |-> secret, payload |-> signed[2]]

\* One element of signature_header.split(','): "key=value", or text with no "=".
KeyValue(k, v) == [eq |-> TRUE, key |-> k, value |-> v]
Bare == [eq |-> FALSE, key |-> "", value |-> JunkValue]

\* key.startswith('v')
VKeys == {"v1", "v0"}
StartsWithV(key) == key \in VKeys

\* Digests a header may carry: those of every timestamp under one secret and
\* payload, and those of the two timestamps inside the window under another
\* secret or over another payload.
SampleMacs ==
    {HmacSha256Hex("whsec_1", SignedPayload(t, "body_a")) : t \in Timestamps}
    \cup {HmacSha256Hex("whsec_2", SignedPayload(t, "body_a")) :
            t \in {Now - Tolerance, Now + Tolerance}}
    \cup {HmacSha256Hex("whsec_1", SignedPayload(t, "body_b")) :
            t \in {Now - Tolerance, Now + Tolerance}}

HeaderElements ==
    {KeyValue("t", NumValue(t)) : t \in Timestamps}
    \cup {KeyValue("t", JunkValue)}
    \cup {KeyValue("v1", m) : m \in SampleMacs \cup {JunkValue}}
    \cup {KeyValue("v0", HmacSha256Hex("whsec_1", SignedPayload(Now - Tolerance, "body_a")))}
    \cup {KeyValue("k", JunkValue)}
    \cup {Bare}

\* A header string splits into at least one element.
Headers == UNION {[1..n -> HeaderElements] : n \in 1..MaxHeaderLen}

-----------------------------------------------------------------------------
(***************************************************************************)
(* utils/stripe_helpers.py: verify_stripe_webhook_signature                *)
(***************************************************************************)

\* int(value) raises ValueError unless the text is a decimal number.
IntParses(value) == value.kind = "num"

\* State of the loop over the elements: raised, timestamp (None until a t
\* element is read) and signatures.
ParseStart == [raised |-> FALSE, has_t |-> FALSE, timestamp |-> 0, signatures |-> <<>>]

\* ParseElement with an element that has no "=" skipped instead of raising.
ParseElement_SkipBare(st, element) ==
    IF st.raised \/ ~element.eq THEN st
    ELSE IF element.key = "t" THEN
        IF IntParses(element.value)
        THEN [st EXCEPT !.has_t = TRUE, !.timestamp = element.value.n]
        ELSE [st EXCEPT !.raised = TRUE]
    ELSE IF StartsWithV(element.key)
        THEN [st EXCEPT !.signatures = Append(@, element.value)]
    ELSE st

\* One iteration of the loop: key, value = element.split('=', 1) raises when
\* the element has no "="; a t element sets timestamp; a v* element is kept as
\* a candidate; any other key is skipped.
ParseElement(st, element) ==
    IF st.raised THEN st
    ELSE IF ~element.eq THEN [st EXCEPT !.raised = TRUE]
    ELSE IF element.key = "t" THEN
        IF IntParses(element.value)
        THEN [st EXCEPT !.has_t = TRUE, !.timestamp = element.value.n]
        ELSE [st EXCEPT !.raised = TRUE]
    ELSE IF StartsWithV(element.key)
        THEN [st EXCEPT !.signatures = Append(@, element.value)]
    ELSE st

RECURSIVE ParseFrom(_, _, _)
ParseFrom(elements, i, st) ==
    IF i > Len(elements) THEN st
    ELSE ParseFrom(elements, i + 1, ParseElement(st, elements[i]))

ParseHeader(elements) == ParseFrom(elements, 1, ParseStart)

\* if timestamp is None: raise ValueError
TimestampMissing(st) == ~st.has_t

\* if not signatures: raise ValueError
SignaturesMissing(st) == st.signatures = <<>>

\* OutsideTolerance with the comparison off by one.
OutsideTolerance_OffByOne(now, timestamp, tolerance) == Abs(now - timestamp) >= tolerance

\* abs(current_time - timestamp) > tolerance
OutsideTolerance(now, timestamp, tolerance) == Abs(now - timestamp) > tolerance

\* AnySignatureMatches looking at the first candidate only.
AnySignatureMatches_FirstOnly(expected, signatures) ==
    Len(signatures) > 0 /\ signatures[1] = expected

\* The loop over signatures with hmac.compare_digest: some candidate equals
\* the expected digest.
AnySignatureMatches(expected, signatures) ==
    \E i \in 1..Len(signatures) : signatures[i] = expected

\* The path the call returns by: "valid" returns True; "stale", "no_match"
\* and "error" (the except branch) return False.
VerifyOutcome(body, elements, secret, tolerance, now) ==
    LET st == ParseHeader(elements) IN
    IF st.raised \/ TimestampMissing(st) \/ SignaturesMissing(st) THEN "error"
    ELSE IF OutsideTolerance(now, st.timestamp, tolerance) THEN "stale"
    ELSE IF AnySignatureMatches(
                HmacSha256Hex(secret, SignedPayload(st.timestamp, body)),
                st.signatures)
         THEN "valid"
    ELSE "no_match"

verify_stripe_webhook_signature(body, elements, secret, tolerance, now) ==
    VerifyOutcome(body, elements, secret, tolerance, now) = "valid"

\* The inputs of one call.
VerifyArgs ==
    /\ payload \in Payloads
    /\ signature_header \in Headers
    /\ webhook_secret \in Secrets
    /\ current_time = Now
    /\ verified = "pending"

\* The call.
VerifyCall ==
    /\ verified = "pending"
    /\ verified' = VerifyOutcome(payload, signature_header, webhook_secret,
                                 Tolerance, current_time)
    /\ UNCHANGED <<payload, signature_header, webhook_secret, current_time>>
    /\ UNCHANGED <<ingressVars, batchVars>>

-----------------------------------------------------------------------------
(***************************************************************************)
(* Events and their JSON text                                              *)
(***************************************************************************)

\* Python None in a text field, and a key that the dict does not hold.
None == "None"
Absent == "absent"
\* The same two for a number field (amounts are non-negative minor units).
NoneAmount == -1
AbsentAmount == -2

\* dict.get(key) and dict.get(key, default) on such fields.
Get(v) == IF v = Absent THEN None ELSE v
GetOr(v, default) == IF v = Absent THEN default ELSE v
GetAmountOr(v, default) == IF v = AbsentAmount THEN default ELSE v
\* Truth value of a text field: None and '' are false.
Truthy(v) == v \notin {None, Absent, ""}

\* A dict with none of the keys the handlers read.
EmptyDict ==
    [event_type |-> Absent, session_id |-> Absent, payment_intent_id |-> Absent,
     invoice_id |-> Absent, customer_id |-> Absent, customer_email |-> Absent,
     amount_total |-> AbsentAmount, amount |-> AbsentAmount,
     amount_paid |-> AbsentAmount, currency |-> Absent,
     subscription_id |-> Absent, timestamp |-> AbsentAmount,
     quantity_change |-> AbsentAmount]

\* A JSON text: wraps relay envelopes ({"Message": <text>, ...}) around an
\* innermost text that is either unparseable or the serialized dict event.
JsonText(wraps, garbage, event) == [wraps |-> wraps, garbage |-> garbage, event |-> event]
\* json.dumps(message)
json_dumps(message) == JsonText(0, FALSE, message)
Garbage == JsonText(0, TRUE, EmptyDict)

-----------------------------------------------------------------------------
(***************************************************************************)
(* handlers/stripe_webhook.py                                              *)
(***************************************************************************)

\* Bound on the messages the topic accepts in one run.
MaxPublished == 1

\* The secret stored under stripe_webhook_secret.
StoredSecret == "whsec_1"

\* Request bodies. json is "invalid" for text json.loads rejects, "array" for
\* JSON that is not an object, "object" for a Stripe event; the other fields
\* are type, created and the fields of data.object (None where it lacks them).
StripeEvent(type, id, payment_intent, email, amount_total, amount, subscription, amount_paid) ==
    [json |-> "object", type |-> type, created |-> 1, id |-> id,
     payment_intent |-> payment_intent, customer |-> "cus_1", email |-> email,
     amount_total |-> amount_total, amount |-> amount, currency |-> "usd",
     subscription |-> subscription, amount_paid |-> amount_paid]
InvalidJsonBody ==
    [StripeEvent("", None, None, None, NoneAmount, NoneAmount, None, NoneAmount)
        EXCEPT !.json = "invalid"]
NonObjectBody ==
    [StripeEvent("", None, None, None, NoneAmount, NoneAmount, None, NoneAmount)
        EXCEPT !.json = "array"]
Bodies ==
    {InvalidJsonBody, NonObjectBody,
     StripeEvent("checkout.session.completed", "cs_1", "pi_1", "a@b.com", 2500,
                 NoneAmount, None, NoneAmount),
     StripeEvent("checkout.session.completed", None, "pi_1", "a@b.com", 2500,
                 NoneAmount, None, NoneAmount),
     StripeEvent("payment_intent.succeeded", "pi_1", None, None, NoneAmount,
                 2500, None, NoneAmount),
     StripeEvent("payment_intent.succeeded", None, None, None, NoneAmount,
                 2500, None, NoneAmount),
     StripeEvent("invoice.payment_succeeded", "in_1", None, None, NoneAmount,
                 NoneAmount, "sub_1", 0),
     StripeEvent("invoice.payment_succeeded", None, None, None, NoneAmount,
                 NoneAmount, None, 1500),
     StripeEvent("charge.refunded", "ch_1", None, None, NoneAmount, 2500, None,
                 NoneAmount),
     StripeEvent("", "evt_1", None, None, NoneAmount, NoneAmount, None, NoneAmount)}

\* The header is absent or empty.
NoSignature == <<>>
\* ''.split(',') is [''].
SplitHeader(h) == IF h = NoSignature THEN <<Bare>> ELSE h

\* stripe-signature headers sent with a body: none, the sender's own
\* (signed now with the stored secret), one signed with another secret, one
\* signed over another body, a replay signed more than the tolerance ago,
\* and text that is no header.
SignedHeader(body, secret, t) ==
    <<KeyValue("t", NumValue(t)),
      KeyValue("v1", HmacSha256Hex(secret, SignedPayload(t, body)))>>
RequestHeaders(body, now) ==
    {NoSignature,
     SignedHeader(body, StoredSecret, now),
     SignedHeader(body, "whsec_attacker", now),
     SignedHeader(NonObjectBody, StoredSecret, now),
     SignedHeader(body, StoredSecret, now - Tolerance - 1),
     <<Bare>>}

\* verify_stripe_signature: logs and returns True.
verify_stripe_signature(body, signature, secret) == TRUE

\* MissingSignature with the check left out.
MissingSignature_Unchecked(stripe_signature) == FALSE

\* if not stripe_signature
MissingSignature(stripe_signature) == stripe_signature = NoSignature

\* The message built for a provider event type, and the canonical type it is
\* published under.
PaymentConfirmedMessage(ev) ==
    [EmptyDict EXCEPT !.event_type = "payment_confirmed",
                      !.payment_intent_id = ev.id,
                      !.amount = ev.amount,
                      !.currency = ev.currency,
                      !.customer_id = ev.customer,
                      !.timestamp = ev.created]
OrderCreatedMessage(ev) ==
    [EmptyDict EXCEPT !.event_type = "order_created",
                      !.session_id = ev.id,
                      !.payment_intent_id = ev.payment_intent,
                      !.customer_email = ev.email,
                      !.customer_id = ev.customer,
                      !.amount_total = ev.amount_total,
                      !.currency = ev.currency,
                      !.timestamp = ev.created]
OrderUpdatedMessage(ev) ==
    [EmptyDict EXCEPT !.event_type = "order_updated",
                      !.invoice_id = ev.id,
                      !.customer_id = ev.customer,
                      !.subscription_id = ev.subscription,
                      !.amount_paid = ev.amount_paid,
                      !.currency = ev.currency,
                      !.timestamp = ev.created]

\* PublishCall with the source attribute left out.
PublishCall_NoSource(message, event_type) ==
    [Message |-> json_dumps(message),
     MessageAttributes |-> [event_type |-> event_type]]

\* One sns_client.publish call.
PublishCall(message, event_type) ==
    [Message |-> json_dumps(message),
     MessageAttributes |-> [event_type |-> event_type, source |-> "stripe_webhook"]]

\* What handling a request comes to: the status, the publish calls made and the
\* messages the topic accepted.
Outcome(status, calls, accepted) == [status |-> status, calls |-> calls, accepted |-> accepted]

\* PublishAndAnswer with a failed publish call made a second time.
PublishAndAnswer_RetryOnce(message, event_type, publish_ok) ==
    LET call == PublishCall(message, event_type) IN
    IF publish_ok THEN Outcome(200, <<call>>, <<call>>)
    ELSE Outcome(500, <<call, call>>, <<>>)

\* PublishAndAnswer with the result of the publish call ignored.
PublishAndAnswer_AlwaysOk(message, event_type, publish_ok) ==
    LET call == PublishCall(message, event_type) IN
    IF publish_ok THEN Outcome(200, <<call>>, <<call>>)
    ELSE Outcome(200, <<call>>, <<>>)

\* publish_to_sns followed by the handler's last if: one publish call; True
\* and 200 when the topic accepts it, False and 500 when the call raises.
PublishAndAnswer(message, event_type, publish_ok) ==
    LET call == PublishCall(message, event_type) IN
    IF publish_ok THEN Outcome(200, <<call>>, <<call>>)
    ELSE Outcome(500, <<call>>, <<>>)

\* Dispatch with one more provider type taken for a payment.
Dispatch_ExtraType(ev, publish_ok) ==
    IF ev.type \in {"payment_intent.succeeded", "charge.refunded"}
        THEN PublishAndAnswer(PaymentConfirmedMessage(ev), "payment_confirmed", publish_ok)
    ELSE IF ev.type = "checkout.session.completed"
        THEN PublishAndAnswer(OrderCreatedMessage(ev), "order_created", publish_ok)
    ELSE IF ev.type = "invoice.payment_succeeded"
        THEN PublishAndAnswer(OrderUpdatedMessage(ev), "order_updated", publish_ok)
    ELSE Outcome(200, <<>>, <<>>)

\* The branch on event_type.
Dispatch(ev, publish_ok) ==
    IF ev.type = "payment_intent.succeeded"
        THEN PublishAndAnswer(PaymentConfirmedMessage(ev), "payment_confirmed", publish_ok)
    ELSE IF ev.type = "checkout.session.completed"
        THEN PublishAndAnswer(OrderCreatedMessage(ev), "order_created", publish_ok)
    ELSE IF ev.type = "invoice.payment_succeeded"
        THEN PublishAndAnswer(OrderUpdatedMessage(ev), "order_updated", publish_ok)
    ELSE Outcome(200, <<>>, <<>>)

\* The handler with no outer except: the error leaves the handler and the
\* gateway answers 502 for it.
InternalServerError_Unhandled == Outcome(502, <<>>, <<>>)

\* The outer except of the handler: whatever raised inside its try is
\* printed and answered 500.
InternalServerError == Outcome(500, <<>>, <<>>)

\* handler(event, context). secret_fetch is what get_secret and the lookup of
\* stripe_webhook_secret do ("ok", "raise" or "no_key"), topic_env whether
\* SNS_TOPIC_ARN is set, publish_ok whether sns_client.publish returns.
WebhookOutcome(body, stripe_signature, secret_fetch, topic_env, publish_ok) ==
    IF MissingSignature(stripe_signature) THEN Outcome(400, <<>>, <<>>)
    ELSE IF secret_fetch # "ok" THEN InternalServerError
    ELSE IF ~verify_stripe_signature(body, stripe_signature, StoredSecret)
        THEN Outcome(401, <<>>, <<>>)
    ELSE IF body.json = "invalid" THEN Outcome(400, <<>>, <<>>)
    ELSE IF body.json # "object" THEN InternalServerError
    ELSE IF ~topic_env THEN InternalServerError
    ELSE Dispatch(body, publish_ok)

NoInvocation ==
    [body |-> InvalidJsonBody, stripe_signature |-> NoSignature, now |-> Now,
     secret_fetch |-> "ok", topic_env |-> TRUE, publish_ok |-> TRUE]

IngressIdle ==
    /\ invocation = NoInvocation
    /\ response = 0
    /\ sns_calls = <<>>
    /\ sns = <<>>

\* One webhook request, handled from start to end.
WebhookHandler ==
    /\ Len(sns) < MaxPublished
    /\ \E body \in Bodies, secret_fetch \in {"ok", "raise", "no_key"},
          topic_env \in BOOLEAN, publish_ok \in BOOLEAN :
       \E stripe_signature \in RequestHeaders(body, Now) :
          LET out == WebhookOutcome(body, stripe_signature, secret_fetch,
                                    topic_env, publish_ok) IN
          /\ invocation' = [body |-> body, stripe_signature |-> stripe_signature,
                            now |-> Now, secret_fetch |-> secret_fetch,
                            topic_env |-> topic_env, publish_ok |-> publish_ok]
          /\ response' = out.status
          /\ sns_calls' = out.calls
          /\ sns' = sns \o out.accepted
    /\ UNCHANGED <<verifyVars, batchVars>>

-----------------------------------------------------------------------------
(***************************************************************************)
(* handlers/order_processor.py: the handlers of the three event types      *)
(***************************************************************************)

\* An item of the orders table; attributes it does not hold are Absent.
NoAttributes ==
    [order_id |-> Absent, customer_id |-> Absent, customer_email |-> Absent,
     amount_total |-> AbsentAmount, currency |-> Absent,
     payment_intent_id |-> Absent, session_id |-> Absent, status |-> Absent,
     created_at |-> AbsentAmount, updated_at |-> AbsentAmount,
     stripe_timestamp |-> AbsentAmount, payment_confirmed_at |-> AbsentAmount,
     subscription_id |-> Absent, amount_paid |-> AbsentAmount]

\* table.put_item(Item=item): creates the item or replaces it whole.
put_item(table, item) == (item.order_id :> item) @@ table

\* table.update_item(Key, UpdateExpression='SET ...') with no condition:
\* sets the attributes named in the expression (values: attribute -> value)
\* on the item, creating the item when the key is new.
update_item(table, key, values) ==
    LET old == IF key \in DOMAIN table THEN table[key]
               ELSE [NoAttributes EXCEPT !.order_id = key]
        new == [a \in DOMAIN old |-> IF a \in DOMAIN values THEN values[a] ELSE old[a]]
    IN (key :> new) @@ table

\* What a handler comes to: its return value and the table after it.
Result(success, table) == [success |-> success, table |-> table]

\* a or b with a fixed default in the place of b.
Or_NoFallback(a, b) == IF Truthy(a) THEN a ELSE "unknown"

\* a or b
Or(a, b) == IF Truthy(a) THEN a ELSE Get(b)

\* process_order_created. io_ok: the put_item call returns (it raises
\* otherwise). Decimal(str(None)) raises.
process_order_created(message_data, table, io_ok, now) ==
    LET order_id == Or(message_data.session_id, message_data.payment_intent_id)
        amount_total == GetAmountOr(message_data.amount_total, 0)
        order_item ==
            [NoAttributes EXCEPT
                !.order_id = order_id,
                !.customer_id = GetOr(message_data.customer_id, "unknown"),
                !.customer_email = GetOr(message_data.customer_email, ""),
                !.amount_total = amount_total,
                !.currency = GetOr(message_data.currency, "usd"),
                !.payment_intent_id = GetOr(message_data.payment_intent_id, ""),
                !.session_id = GetOr(message_data.session_id, ""),
                !.status = "created",
                !.created_at = now,
                !.updated_at = now,
                !.stripe_timestamp = GetAmountOr(message_data.timestamp, 0)]
    IN  IF ~Truthy(order_id) THEN Result(FALSE, table)
        ELSE IF amount_total = NoneAmount THEN Result(FALSE, table)
        ELSE IF ~io_ok THEN Result(FALSE, table)
        ELSE Result(TRUE, put_item(table, order_item))

\* process_payment_confirmed. io_ok: the update_item call returns.
process_payment_confirmed(message_data, table, io_ok, now) ==
    LET payment_intent_id == Get(message_data.payment_intent_id)
        values == [status |-> "payment_confirmed", updated_at |-> now,
                   payment_confirmed_at |-> now]
    IN  IF ~Truthy(payment_intent_id) THEN Result(FALSE, table)
        ELSE IF ~io_ok THEN Result(FALSE, table)
        ELSE Result(TRUE, update_item(table, payment_intent_id, values))

\* process_order_updated. io_ok: the update_item call returns. An amount_paid
\* of None or 0 is false and is not written.
process_order_updated(message_data, table, io_ok, now) ==
    LET order_id == Get(message_data.invoice_id)
        has_sub == Truthy(message_data.subscription_id)
        has_paid == message_data.amount_paid \notin {AbsentAmount, NoneAmount, 0}
        sub_id == IF has_sub THEN [subscription_id |-> message_data.subscription_id]
                  ELSE <<>>
        paid == IF has_paid THEN [amount_paid |-> message_data.amount_paid] ELSE <<>>
        values == [updated_at |-> now] @@ sub_id @@ paid
    IN  IF ~Truthy(order_id) THEN Result(FALSE, table)
        ELSE IF ~io_ok THEN Result(FALSE, table)
        ELSE Result(TRUE, update_item(table, order_id, values))

\* The branch on event_type of the order consumer; an unknown type succeeds.
OrderDispatch(actual_message, table, io_ok, now) ==
    LET event_type == Get(actual_message.event_type) IN
    IF event_type = "order_created"
        THEN process_order_created(actual_message, table, io_ok, now)
    ELSE IF event_type = "payment_confirmed"
        THEN process_payment_confirmed(actual_message, table, io_ok, now)
    ELSE IF event_type = "order_updated"
        THEN process_order_updated(actual_message, table, io_ok, now)
    ELSE Result(TRUE, table)

-----------------------------------------------------------------------------
(***************************************************************************)
(* handlers/email_processor.py and inventory_processor.py: the handlers    *)
(***************************************************************************)

\* str.upper() on the currency codes in use.
Upper(currency) ==
    CASE currency = "usd" -> "USD"
      [] currency = "jpy" -> "JPY"
      [] OTHER -> currency

\* f"{amount / 100:.2f} {currency}": the amount divided by 100, two decimals.
FormattedAmount(amount, currency) ==
    [whole |-> amount \div 100, hundredths |-> amount % 100, currency |-> currency]

\* str.lower() on the currency codes in use.
Lower(currency) ==
    CASE currency = "USD" -> "usd"
      [] currency = "JPY" -> "jpy"
      [] OTHER -> currency

ZeroDecimalCurrencies ==
    {"jpy", "krw", "vnd", "clp", "pyg", "rwf", "ugx", "xaf", "xof"}
\* The hundredths of a number displayed with no decimals.
NoDecimals == -1

\* format_amount_for_display of utils/stripe_helpers: f"{amount:,}" of the
\* amount itself for a zero-decimal currency, f"{amount:,.2f}" of amount / 100
\* for the others, then the currency in upper case. grouped: the digits are
\* grouped by thousands.
format_amount_for_display(amount_cents, currency) ==
    IF Lower(currency) \in ZeroDecimalCurrencies
    THEN [whole |-> amount_cents, hundredths |-> NoDecimals, grouped |-> TRUE,
          currency |-> Upper(currency)]
    ELSE [whole |-> amount_cents \div 100, hundredths |-> amount_cents % 100,
          grouped |-> TRUE, currency |-> Upper(currency)]

Mail(template, to, ref, formatted_amount) ==
    [template |-> template, to |-> to, ref |-> ref, amount |-> formatted_amount]

\* What an email handler comes to: its return value and the mails sent.
Sent(success, mails) == [success |-> success, mails |-> mails]

\* send_order_confirmation_email. io_ok: ses_client.send_email returns.
\* amount / 100 with amount None, and None.upper(), raise into the except.
send_order_confirmation_email(message_data, io_ok) ==
    LET customer_email == Get(message_data.customer_email)
        order_id == IF Truthy(message_data.session_id) THEN message_data.session_id
                    ELSE GetOr(message_data.payment_intent_id, "N/A")
        amount == GetAmountOr(message_data.amount_total, 0)
        currency == GetOr(message_data.currency, "USD")
    IN  IF ~Truthy(customer_email) THEN Sent(FALSE, {})
        ELSE IF currency = None \/ amount = NoneAmount THEN Sent(FALSE, {})
        ELSE IF ~io_ok THEN Sent(FALSE, {})
        ELSE Sent(TRUE, {Mail("order_confirmation", customer_email, order_id,
                              FormattedAmount(amount, Upper(currency)))})

\* send_payment_confirmation_email: with no customer email it returns True
\* and sends nothing.
send_payment_confirmation_email(message_data, io_ok) ==
    LET customer_email == Get(message_data.customer_email)
        payment_intent_id == GetOr(message_data.payment_intent_id, "N/A")
        amount == GetAmountOr(message_data.amount, 0)
        currency == GetOr(message_data.currency, "USD")
    IN  IF ~Truthy(customer_email) THEN Sent(TRUE, {})
        ELSE IF currency = None \/ amount = NoneAmount THEN Sent(FALSE, {})
        ELSE IF ~io_ok THEN Sent(FALSE, {})
        ELSE Sent(TRUE, {Mail("payment_confirmation", customer_email,
                              payment_intent_id,
                              FormattedAmount(amount, Upper(currency)))})

\* The branch on event_type of the email consumer.
EmailDispatch(actual_message, io_ok) ==
    LET event_type == Get(actual_message.event_type) IN
    IF event_type = "order_created"
        THEN send_order_confirmation_email(actual_message, io_ok)
    ELSE IF event_type = "payment_confirmed"
        THEN send_payment_confirmation_email(actual_message, io_ok)
    ELSE Sent(TRUE, {})

\* process_order_created_inventory: with no product list in the metadata it
\* notes one generic reservation and returns True.
process_order_created_inventory(message_data) == TRUE

\* process_inventory_update: quantity_change > 0 with quantity_change None
\* raises into the except.
process_inventory_update(message_data) ==
    GetAmountOr(message_data.quantity_change, 0) # NoneAmount

\* The branch on event_type of the inventory consumer.
InventoryDispatch(actual_message) ==
    LET event_type == Get(actual_message.event_type) IN
    IF event_type = "order_created"
        THEN process_order_created_inventory(actual_message)
    ELSE IF event_type = "inventory_update"
        THEN process_inventory_update(actual_message)
    ELSE TRUE

-----------------------------------------------------------------------------
(***************************************************************************)
(* The batch loop of the three consumers, and the SQS transport            *)
(***************************************************************************)

\* Messages sent in one run, and records in one batch.
MaxSent == 2
MaxBatch == 2

Consumers == {"order", "email", "inventory"}

\* One SQS record.
Record(messageId, body) == [messageId |-> messageId, body |-> body]

\* An SNS notification delivered to SQS: the published text under "Message".
RelayWrapped(text) == [text EXCEPT !.wraps = @ + 1]

\* ParseRecord with every level of relay envelope unwrapped.
ParseRecord_UnwrapAll(body) == [raised |-> body.garbage, actual_message |-> body.event]

\* ParseRecord with the Message of a relay envelope left unparsed.
ParseRecord_NoUnwrap(body) ==
    IF body.wraps = 0 THEN [raised |-> body.garbage, actual_message |-> body.event]
    ELSE [raised |-> FALSE, actual_message |-> EmptyDict]

\* json.loads(record['body']), then json.loads(message_body['Message']) when
\* the body has a Message key. raised: one of the two raised. A Message that
\* is itself a relay envelope parses to a dict with no event_type.
ParseRecord(body) ==
    IF body.wraps <= 1 THEN [raised |-> body.garbage, actual_message |-> body.event]
    ELSE [raised |-> FALSE, actual_message |-> EmptyDict]

\* The handler's locals between two records.
Invocation(phase, setup, records, i, processed_count, failed_count, results, report) ==
    [phase |-> phase, setup |-> setup, records |-> records, i |-> i,
     processed_count |-> processed_count, failed_count |-> failed_count,
     results |-> results, report |-> report]
Idle == Invocation("idle", "ok", <<>>, 1, 0, 0, <<>>, <<>>)

MessageIds(records) == [k \in 1..Len(records) |-> records[k].messageId]

\* One call put_cloudwatch_metric(metric_name, value).
Metric(metric_name, value) == [metric_name |-> metric_name, value |-> value]
\* The calls the loop of consumer c makes for one record, outside the
\* handler of its event type.
ItemMetrics(c, success) ==
    IF c = "email"
    THEN IF success THEN <<Metric("EmailsSent", 1)>>
         ELSE <<Metric("EmailSendFailures", 1)>>
    ELSE <<>>
\* The calls consumer c makes after its loop.
BatchMetrics(c, processed_count, failed_count) ==
    CASE c = "order" ->
           <<Metric("MessagesProcessed", processed_count)>> \o
           (IF failed_count > 0
            THEN <<Metric("MessageProcessingFailures", failed_count)>> ELSE <<>>)
      [] c = "email" -> <<Metric("EmailBatchesProcessed", 1)>>
      [] c = "inventory" ->
           <<Metric("InventoryBatchesProcessed", 1),
             Metric("InventoryMessagesProcessed", processed_count)>> \o
           (IF failed_count > 0
            THEN <<Metric("InventoryMessageFailures", failed_count)>> ELSE <<>>)
\* The call consumer c makes in its outer except.
HandlerErrorMetrics(c) ==
    CASE c = "order" -> <<Metric("HandlerErrors", 1)>>
      [] c = "email" -> <<Metric("EmailHandlerErrors", 1)>>
      [] c = "inventory" -> <<Metric("InventoryHandlerErrors", 1)>>

\* put_cloudwatch_metric whose except lets the error through.
put_cloudwatch_metric_Propagates(put_metric_data_ok) ==
    [raised |-> ~put_metric_data_ok, delivered |-> put_metric_data_ok]

\* put_cloudwatch_metric: the call of cloudwatch.put_metric_data is inside a
\* try whose except prints the error; the function returns either way.
put_cloudwatch_metric(put_metric_data_ok) ==
    [raised |-> FALSE, delivered |-> put_metric_data_ok]

\* The turn of the loop of consumer c for the parsed record calls
\* put_cloudwatch_metric: the email loop does for every record, the handlers
\* of the order and inventory consumers do after their write or in their
\* except, and not on the return for a missing identifier.
CallsMetric(c, parsed) ==
    LET m == parsed.actual_message
        event_type == Get(m.event_type)
    IN  CASE c = "email" -> TRUE
          [] c = "order" ->
               /\ ~parsed.raised
               /\ \/ event_type = "order_created"
                       /\ Truthy(Or(m.session_id, m.payment_intent_id))
                  \/ event_type = "payment_confirmed"
                       /\ Truthy(Get(m.payment_intent_id))
                  \/ event_type = "order_updated" /\ Truthy(Get(m.invoice_id))
          [] c = "inventory" ->
               /\ ~parsed.raised
               /\ event_type \in {"order_created", "inventory_update"}

\* BatchItemFailures that reports nothing when the setup failed.
AllItemFailures_None(records) == <<>>

\* The outer except: every record of the batch is reported failed.
AllItemFailures(records) == MessageIds(records)

\* BatchItemFailures that names every record once one has failed.
BatchItemFailures_AllOnFailure(records, failed_count) ==
    IF failed_count > 0 THEN MessageIds(records) ELSE <<>>

\* The return after the loop: with failures, the last failed_count
\* identifiers of the batch; {'statusCode': 200} otherwise.
BatchItemFailures(records, failed_count) ==
    IF failed_count > 0
    THEN SubSeq(MessageIds(records), Len(records) - failed_count + 1, Len(records))
    ELSE <<>>

\* NextRecord with a failed record ending the loop.
NextRecord_StopOnFailure(i, success, n) == IF success THEN i + 1 ELSE n + 1

\* The for loop goes on to the next record whether the record succeeded,
\* returned False or raised inside the inner try.
NextRecord(i, success, n) == i + 1

\* Every way to hand out up to MaxBatch of the visible messages, in any order.
Batches(visible) ==
    {b \in UNION {[1..n -> visible] : n \in 1..MaxBatch} :
        \A j, k \in 1..Len(b) : j # k => b[j] # b[k]}

\* A producer (the SNS subscription, or a redrive) puts a message on a queue.
Send(c, body) ==
    /\ next_id <= MaxSent
    /\ queue' = [queue EXCEPT ![c] = @ \cup {Record(next_id, body)}]
    /\ next_id' = next_id + 1
    /\ UNCHANGED <<inv, settled, orders, clock, outbox, metrics, cloudwatch_up>>
    /\ UNCHANGED <<verifyVars, ingressVars>>

\* SQS invokes the handler with a batch. The email handler first fetches its
\* secret and reads ses_from_email; when that raises, the outer except returns
\* every record as failed.
Receive(c) ==
    /\ inv[c].phase = "idle"
    /\ \E records \in Batches(queue[c]) :
       \E setup \in IF c = "email" THEN {"ok", "raise", "no_key"} ELSE {"ok"} :
          /\ queue' = [queue EXCEPT ![c] = @ \ {records[k] : k \in 1..Len(records)}]
          /\ inv' = [inv EXCEPT ![c] =
                IF setup = "ok"
                THEN Invocation("running", setup, records, 1, 0, 0, <<>>, <<>>)
                ELSE Invocation("returned", setup, records, 1, 0, 0, <<>>,
                                AllItemFailures(records))]
          /\ metrics' = [metrics EXCEPT ![c] =
                IF setup = "ok" THEN <<>> ELSE HandlerErrorMetrics(c)]
    /\ UNCHANGED <<next_id, settled, orders, clock, outbox, cloudwatch_up>>
    /\ UNCHANGED <<verifyVars, ingressVars>>

\* One turn of the loop: parse the record, dispatch on event_type, count.
\* io_ok: the call to DynamoDB or SES made for the record returns.
ProcessRecord(c) ==
    /\ inv[c].phase = "running"
    /\ inv[c].i <= Len(inv[c].records)
    /\ \E io_ok \in BOOLEAN :
        LET record == inv[c].records[inv[c].i]
            parsed == ParseRecord(record.body)
            order == OrderDispatch(parsed.actual_message, orders, io_ok, clock)
            email == EmailDispatch(parsed.actual_message, io_ok)
            returned ==
                /\ ~parsed.raised
                /\ CASE c = "order" -> order.success
                     [] c = "email" -> email.success
                     [] c = "inventory" -> InventoryDispatch(parsed.actual_message)
            success ==
                /\ returned
                /\ ~(/\ CallsMetric(c, parsed)
                      /\ put_cloudwatch_metric(cloudwatch_up).raised)
        IN
        /\ orders' = IF c = "order" /\ ~parsed.raised THEN order.table ELSE orders
        /\ outbox' = IF c = "email" /\ ~parsed.raised THEN outbox \cup email.mails
                     ELSE outbox
        /\ inv' = [inv EXCEPT ![c] =
              [@ EXCEPT
                 !.i = NextRecord(@, success, Len(inv[c].records)),
                 !.processed_count = IF success THEN @ + 1 ELSE @,
                 !.failed_count = IF success THEN @ ELSE @ + 1,
                 !.results = Append(@, success)]]
        /\ metrics' = [metrics EXCEPT ![c] = @ \o ItemMetrics(c, success)]
    /\ UNCHANGED <<next_id, queue, settled, clock, cloudwatch_up>>
    /\ UNCHANGED <<verifyVars, ingressVars>>

\* The loop is over: the handler emits its metrics and returns its failure
\* report; a metric call that raised would end in the outer except.
Return(c) ==
    /\ inv[c].phase = "running"
    /\ inv[c].i > Len(inv[c].records)
    /\ inv' = [inv EXCEPT ![c] =
          [@ EXCEPT !.phase = "returned",
                    !.report =
                        IF put_cloudwatch_metric(cloudwatch_up).raised
                        THEN AllItemFailures(inv[c].records)
                        ELSE BatchItemFailures(inv[c].records, inv[c].failed_count)]]
    /\ metrics' = [metrics EXCEPT ![c] =
          @ \o BatchMetrics(c, inv[c].processed_count, inv[c].failed_count)]
    /\ UNCHANGED <<next_id, queue, settled, orders, clock, outbox, cloudwatch_up>>
    /\ UNCHANGED <<verifyVars, ingressVars>>

\* SQS acts on the report: the records it names become visible again, the
\* others are deleted.
Settle(c) ==
    /\ inv[c].phase = "returned"
    /\ LET records == inv[c].records
           reported == {inv[c].report[k] : k \in 1..Len(inv[c].report)}
           Succeeded(k) == k <= Len(inv[c].results) /\ inv[c].results[k]
       IN
       /\ queue' = [queue EXCEPT ![c] =
              @ \cup {records[k] : k \in {j \in 1..Len(records) :
                                            records[j].messageId \in reported}}]
       /\ settled' = [settled EXCEPT ![c] =
              @ \cup {[messageId |-> records[k].messageId, succeeded |-> Succeeded(k)] :
                        k \in {j \in 1..Len(records) :
                                 records[j].messageId \notin reported}}]
    /\ inv' = [inv EXCEPT ![c] = Idle]
    /\ metrics' = [metrics EXCEPT ![c] = <<>>]
    /\ UNCHANGED <<next_id, orders, clock, outbox, cloudwatch_up>>
    /\ UNCHANGED <<verifyVars, ingressVars>>

\* Latest reading of the clock in one run.
MaxClock == 2

\* Time passes between two calls of datetime.utcnow().
Tick ==
    /\ clock < MaxClock
    /\ clock' = clock + 1
    /\ UNCHANGED <<next_id, queue, inv, settled, orders, outbox, metrics,
                   cloudwatch_up>>
    /\ UNCHANGED <<verifyVars, ingressVars>>

\* CloudWatch stops taking calls, between two invocations, and stays down.
Outage ==
    /\ cloudwatch_up
    /\ \A c \in Consumers : inv[c].phase = "idle"
    /\ cloudwatch_up' = FALSE
    /\ UNCHANGED <<next_id, queue, inv, settled, orders, clock, outbox, metrics>>
    /\ UNCHANGED <<verifyVars, ingressVars>>

BatchIdle ==
    /\ next_id = 1
    /\ queue = [c \in Consumers |-> {}]
    /\ inv = [c \in Consumers |-> Idle]
    /\ settled = [c \in Consumers |-> {}]
    /\ orders = <<>>
    /\ clock = 1
    /\ outbox = {}
    /\ metrics = [c \in Consumers |-> <<>>]
    /\ cloudwatch_up = TRUE

\* Events and bodies put on the queues.
OrderCreatedEvent == OrderCreatedMessage(
    StripeEvent("checkout.session.completed", "cs_1", "pi_1", "a@b.com", 2500,
                NoneAmount, None, NoneAmount))
PaymentConfirmedEvent == PaymentConfirmedMessage(
    StripeEvent("payment_intent.succeeded", "pi_1", None, None, NoneAmount,
                2500, None, NoneAmount))
OrderUpdatedEvent == OrderUpdatedMessage(
    StripeEvent("invoice.payment_succeeded", "in_1", None, None, NoneAmount,
                NoneAmount, "sub_1", 1500))
NoIdentifierEvent == [EmptyDict EXCEPT !.event_type = "order_created"]
UnknownTypeEvent == [EmptyDict EXCEPT !.event_type = "customer.created"]
BatchBodies ==
    {json_dumps(OrderCreatedEvent),
     RelayWrapped(json_dumps(PaymentConfirmedEvent)),
     json_dumps(OrderUpdatedEvent),
     json_dumps(NoIdentifierEvent),
     json_dumps(UnknownTypeEvent),
     Garbage}

\* A checkout event whose session has no id: the order is keyed by its
\* payment intent.
FallbackKeyEvent == OrderCreatedMessage(
    StripeEvent("checkout.session.completed", None, "pi_1", "a@b.com", 2500,
                NoneAmount, None, NoneAmount))
\* Bodies put on the queue of the order consumer alone.
OrderBodies ==
    {json_dumps(OrderCreatedEvent),
     json_dumps(FallbackKeyEvent),
     RelayWrapped(json_dumps(PaymentConfirmedEvent))}

\* An invoice that paid nothing and names no subscription.
ZeroPaidEvent == OrderUpdatedMessage(
    StripeEvent("invoice.payment_succeeded", "in_1", None, None, NoneAmount,
                NoneAmount, None, 0))
\* An order_created event whose session id is the key the invoice events
\* address.
InvoiceKeyOrderEvent == OrderCreatedMessage(
    StripeEvent("checkout.session.completed", "in_1", "pi_1", "a@b.com", 2500,
                NoneAmount, None, NoneAmount))
\* An order_updated event with no invoice id.
NoInvoiceEvent == [EmptyDict EXCEPT !.event_type = "order_updated"]
\* Bodies put on the queue of the order consumer for the two updates.
UpdateBodies ==
    {json_dumps(OrderUpdatedEvent),
     json_dumps(ZeroPaidEvent),
     json_dumps(InvoiceKeyOrderEvent),
     json_dumps(NoInvoiceEvent),
     RelayWrapped(json_dumps(PaymentConfirmedEvent))}

\* The order consumer alone, fed the update events, with time passing.
UpdatesNext ==
    \/ \E body \in UpdateBodies : Send("order", body)
    \/ Receive("order")
    \/ ProcessRecord("order")
    \/ Return("order")
    \/ Settle("order")
    \/ Tick

\* A checkout and a payment of 1500 yen, and a checkout of 1500 US cents.
YenOrderEvent ==
    [OrderCreatedEvent EXCEPT !.currency = "jpy", !.amount_total = 1500]
YenPaymentEvent ==
    [PaymentConfirmedEvent EXCEPT !.currency = "jpy", !.amount = 1500,
                                  !.customer_email = "a@b.com"]
DollarOrderEvent == [OrderCreatedEvent EXCEPT !.amount_total = 1500]
\* Bodies put on the queue of the email consumer alone.
EmailBodies ==
    {json_dumps(YenOrderEvent),
     RelayWrapped(json_dumps(YenPaymentEvent)),
     json_dumps(DollarOrderEvent),
     json_dumps(UnknownTypeEvent)}

\* The email consumer alone.
EmailNext ==
    \/ \E body \in EmailBodies : Send("email", body)
    \/ Receive("email")
    \/ ProcessRecord("email")
    \/ Return("email")
    \/ Settle("email")

\* The same event direct, inside a relay envelope and inside two, and a relay
\* envelope whose Message is not JSON.
RelayBodies ==
    {json_dumps(OrderCreatedEvent),
     RelayWrapped(json_dumps(OrderCreatedEvent)),
     RelayWrapped(RelayWrapped(json_dumps(OrderCreatedEvent))),
     RelayWrapped(Garbage)}

\* The three consumers fed direct and relayed bodies.
RelayNext ==
    \/ \E c \in Consumers, body \in RelayBodies : Send(c, body)
    \/ \E c \in Consumers : Receive(c)
    \/ \E c \in Consumers : ProcessRecord(c)
    \/ \E c \in Consumers : Return(c)
    \/ \E c \in Consumers : Settle(c)

\* Bodies put on the queue of the order consumer for the keys of its records.
KeyBodies ==
    {json_dumps(OrderCreatedEvent),
     json_dumps(FallbackKeyEvent),
     json_dumps(NoIdentifierEvent),
     json_dumps(PaymentConfirmedEvent)}

\* The order consumer alone.
KeysNext ==
    \/ \E body \in KeyBodies : Send("order", body)
    \/ Receive("order")
    \/ ProcessRecord("order")
    \/ Return("order")
    \/ Settle("order")

\* Bodies put on the queues while CloudWatch may be down.
MetricBodies ==
    {json_dumps(OrderCreatedEvent),
     RelayWrapped(json_dumps(PaymentConfirmedEvent)),
     json_dumps(NoIdentifierEvent),
     Garbage}

\* The three consumers, with and without CloudWatch.
MetricsNext ==
    \/ \E c \in Consumers, body \in MetricBodies : Send(c, body)
    \/ \E c \in Consumers : Receive(c)
    \/ \E c \in Consumers : ProcessRecord(c)
    \/ \E c \in Consumers : Return(c)
    \/ \E c \in Consumers : Settle(c)
    \/ Outage

\* The order consumer alone, with time passing between its records.
OrdersNext ==
    \/ \E body \in OrderBodies : Send("order", body)
    \/ Receive("order")
    \/ ProcessRecord("order")
    \/ Return("order")
    \/ Settle("order")
    \/ Tick

BatchNext ==
    \/ \E c \in Consumers, body \in BatchBodies : Send(c, body)
    \/ \E c \in Consumers : Receive(c)
    \/ \E c \in Consumers : ProcessRecord(c)
    \/ \E c \in Consumers : Return(c)
    \/ \E c \in Consumers : Settle(c)

-----------------------------------------------------------------------------
(***************************************************************************)
(* Specifications                                                          *)
(***************************************************************************)

VerifyIdle ==
    /\ payload = "body_a"
    /\ signature_header = <<Bare>>
    /\ webhook_secret = StoredSecret
    /\ current_time = Now
    /\ verified = "pending"

\* One call of the verifier on any arguments.
VerifyInit == VerifyArgs /\ IngressIdle /\ BatchIdle
SpecVerify == VerifyInit /\ [][VerifyCall]_vars

\* Webhook requests, one after the other.
IngressInit == VerifyIdle /\ IngressIdle /\ BatchIdle
SpecIngress == IngressInit /\ [][WebhookHandler]_vars

\* The three consumers fed by a producer, each handling one batch at a time.
BatchInit == VerifyIdle /\ IngressIdle /\ BatchIdle
SpecBatch == BatchInit /\ [][BatchNext]_vars

\* Deliveries to the order consumer in any order, with redelivery of what it
\* reports, while the clock advances.
OrdersInit == VerifyIdle /\ IngressIdle /\ BatchIdle
SpecOrders == OrdersInit /\ [][OrdersNext]_vars

\* Deliveries to the order consumer of events with and without identifiers.
KeysInit == VerifyIdle /\ IngressIdle /\ BatchIdle
SpecKeys == KeysInit /\ [][KeysNext]_vars

\* Deliveries to the three consumers before and during a CloudWatch outage.
MetricsInit == VerifyIdle /\ IngressIdle /\ BatchIdle
SpecMetrics == MetricsInit /\ [][MetricsNext]_vars

\* Deliveries to the email consumer of amounts in two currencies.
EmailInit == VerifyIdle /\ IngressIdle /\ BatchIdle
SpecEmail == EmailInit /\ [][EmailNext]_vars

\* Direct and relayed deliveries of one event to the three consumers.
RelayInit == VerifyIdle /\ IngressIdle /\ BatchIdle
SpecRelay == RelayInit /\ [][RelayNext]_vars

\* Deliveries of update events to the order consumer, in any order, with
\* redelivery of what it reports, while the clock advances.
UpdatesInit == VerifyIdle /\ IngressIdle /\ BatchIdle
SpecUpdates == UpdatesInit /\ [][UpdatesNext]_vars

-----------------------------------------------------------------------------
(***************************************************************************)
(* Properties of the verifier                                              *)
(***************************************************************************)

\* What a header says, read off its elements.
TPositions(h) == {i \in 1..Len(h) : h[i].eq /\ h[i].key = "t"}
Candidates(h) == {h[i].value : i \in {j \in 1..Len(h) : h[j].eq /\ h[j].key \in VKeys}}
WellFormed(h) ==
    /\ \A i \in 1..Len(h) : h[i].eq
    /\ \A i \in TPositions(h) : h[i].value.kind = "num"
    /\ TPositions(h) # {}
    /\ Candidates(h) # {}
\* The t field (the last one, should the header repeat it).
HeaderT(h) == h[CHOOSE i \in TPositions(h) : \A j \in TPositions(h) : j <= i].value.n
\* The MAC of "<t>.<payload>" under the secret of the call.
CorrectMac == HmacSha256Hex(webhook_secret, SignedPayload(HeaderT(signature_header), payload))
Returned == verified # "pending"

\* C7: the call returns false whenever |now - t| > tolerance, and for
\* |now - t| <= tolerance it is not rejected as stale: with a correct
\* signature it returns true, at exactly 300 seconds in the past and in the
\* future, and false at 301.
Thm_C7_tolerance_window ==
    (Returned /\ WellFormed(signature_header)) =>
        LET d == current_time - HeaderT(signature_header) IN
        /\ (d > Tolerance \/ -d > Tolerance) => verified # "valid"
        /\ (d <= Tolerance /\ -d <= Tolerance) =>
              /\ verified # "stale"
              /\ CorrectMac \in Candidates(signature_header) => verified = "valid"

\* A correctly signed timestamp exactly 300 seconds in the future was accepted.
Wit_C7_boundary_accepted ==
    /\ verified = "valid"
    /\ HeaderT(signature_header) - current_time = Tolerance

\* C8: for a well-formed header with a fresh timestamp t, the call returns
\* true if and only if some candidate equals the MAC of "<t>.<payload>" under
\* the secret.
Thm_C8_valid_iff_mac_matches ==
    (Returned /\ WellFormed(signature_header)
        /\ Abs(current_time - HeaderT(signature_header)) <= Tolerance) =>
        (verified = "valid" <=> CorrectMac \in Candidates(signature_header))

\* Accepted on the second candidate: the first one was computed over other input.
Wit_C8_second_candidate_matches ==
    /\ verified = "valid"
    /\ Len(signature_header) = 3
    /\ signature_header[2].key = "v1" /\ signature_header[2].value # CorrectMac
    /\ signature_header[3].key = "v1" /\ signature_header[3].value = CorrectMac

-----------------------------------------------------------------------------
(***************************************************************************)
(* Properties of the webhook ingress                                       *)
(***************************************************************************)

Handled == response # 0
\* The handler got as far as checking the signature.
ReachedVerification ==
    /\ Handled
    /\ invocation.stripe_signature # NoSignature
    /\ invocation.secret_fetch = "ok"
\* What a real check of the request's signature and freshness says.
ReallyVerified ==
    verify_stripe_webhook_signature(invocation.body,
        SplitHeader(invocation.stripe_signature), StoredSecret, Tolerance,
        invocation.now)
\* No candidate of the header is the MAC of "<t>.<body>" under the stored secret.
SignatureMismatch ==
    LET h == invocation.stripe_signature IN
    /\ WellFormed(h)
    /\ HmacSha256Hex(StoredSecret, SignedPayload(HeaderT(h), invocation.body))
           \notin Candidates(h)

\* C5: a request whose signature header does not match the payload under the
\* webhook secret is answered 401.
Claim_C5_mismatch_answers_401 ==
    (ReachedVerification /\ SignatureMismatch) => response = 401

\* C6: a message is published only for a webhook that passes a real
\* signature-and-freshness verification.
Claim_C6_publish_only_if_verified ==
    (Handled /\ sns_calls # <<>> /\ invocation.publish_ok) => ReallyVerified

\* C10: a request with a missing or empty signature header is answered 400,
\* and so is a request whose body is not valid JSON once the handler gets to
\* parse it (the header is there and the secret was fetched); neither
\* publishes anything.
Thm_C10_bad_request_400 ==
    /\ (Handled /\ invocation.stripe_signature = NoSignature) =>
          (response = 400 /\ sns_calls = <<>>)
    /\ (ReachedVerification /\ invocation.body.json = "invalid") =>
          (response = 400 /\ sns_calls = <<>>)

\* A request with no signature header and a well-formed checkout event was
\* answered 400.
Wit_C10_missing_signature ==
    /\ response = 400
    /\ invocation.stripe_signature = NoSignature
    /\ invocation.body.type = "checkout.session.completed"
    /\ invocation.publish_ok /\ invocation.topic_env

\* The handler got as far as the branch on the event type: the signature
\* header is there, the secret was fetched, the body is a JSON object and the
\* topic is configured.
ReachedDispatch ==
    /\ ReachedVerification
    /\ invocation.body.json = "object"
    /\ invocation.topic_env
RecognizedTypes ==
    {"checkout.session.completed", "payment_intent.succeeded", "invoice.payment_succeeded"}
\* The canonical type of a recognized provider type.
CanonicalType(type) ==
    CASE type = "checkout.session.completed" -> "order_created"
      [] type = "payment_intent.succeeded" -> "payment_confirmed"
      [] type = "invoice.payment_succeeded" -> "order_updated"
\* The publish call of the request returned.
PublishSucceeded == sns_calls # <<>> /\ invocation.publish_ok
PublishFailed == sns_calls # <<>> /\ ~invocation.publish_ok

\* C11: for a request that passes a real verification and carries one of the
\* three recognized provider types, the answer is 200 if and only if the
\* publish call succeeded, and 500 when the publish call failed.
Thm_C11_200_iff_published ==
    (ReachedVerification /\ ReallyVerified /\ invocation.body.json = "object"
        /\ invocation.body.type \in RecognizedTypes) =>
        /\ response = 200 <=> PublishSucceeded
        /\ PublishFailed => response = 500
        /\ response \in {200, 500}

\* A correctly signed checkout event whose publish call raised was answered 500.
Wit_C11_publish_failed_500 ==
    /\ ReachedDispatch /\ ReallyVerified
    /\ invocation.body.type = "checkout.session.completed"
    /\ PublishFailed
    /\ response = 500

\* C12: at the branch on the event type, each of the three recognized
\* provider types is published once under its canonical type, in the message
\* and in the routing attribute, and for any other type, the empty one
\* included, nothing is published and the answer is 200.
Thm_C12_exactly_three_types ==
    ReachedDispatch =>
        IF invocation.body.type \in RecognizedTypes
        THEN /\ Len(sns_calls) = 1
             /\ sns_calls[1].MessageAttributes.event_type =
                    CanonicalType(invocation.body.type)
             /\ sns_calls[1].Message.event.event_type =
                    CanonicalType(invocation.body.type)
        ELSE sns_calls = <<>> /\ response = 200

\* An event of another provider type, with a publish call that would have
\* raised, was answered 200 with nothing published.
Wit_C12_other_type_acknowledged ==
    /\ ReachedDispatch
    /\ invocation.body.type = "charge.refunded"
    /\ ~invocation.publish_ok
    /\ response = 200 /\ sns_calls = <<>>

\* C13: an event of a recognized provider type whose data object has no id
\* is not published and is not answered 200, the answer given to an
\* unrecognized type.
Claim_C13_missing_identifier_fails ==
    (ReachedDispatch /\ invocation.body.type \in RecognizedTypes
        /\ invocation.body.id = None) =>
        (sns_calls = <<>> /\ response # 200)

Thm_C30_publish_at_most_once ==
    [][/\ Len(sns_calls') <= 1
       /\ Len(sns') - Len(sns) \in {0, 1}
       /\ Len(sns') - Len(sns) <= Len(sns_calls')
       /\ (sns_calls' # <<>> /\ ~invocation'.publish_ok) =>
             (Len(sns_calls') = 1 /\ sns' = sns)]_vars

\* The publish call for a payment event raised: one call was made and the
\* topic holds nothing.
Wit_C30_failed_publish_single_call ==
    /\ Handled
    /\ invocation.body.type = "payment_intent.succeeded"
    /\ ~invocation.publish_ok
    /\ Len(sns_calls) = 1
    /\ sns = <<>>

\* C34: a request that carries a signature header and whose handling fails
\* before the publish step for another reason than the signature or the
\* syntax of the body is answered 500 with no publish call: get_secret
\* raises, the secret bundle has no stripe_webhook_secret, the body is JSON
\* but not an object, or SNS_TOPIC_ARN is not set when the handler gets to
\* read it. Every request gets a response of the handler's own: the handler
\* never raises.
Thm_C34_internal_failure_500 ==
    /\ Handled => response \in {200, 400, 401, 500}
    /\ (Handled /\ invocation.stripe_signature # NoSignature
           /\ invocation.secret_fetch # "ok") =>
          (response = 500 /\ sns_calls = <<>>)
    /\ (ReachedVerification /\ invocation.body.json \notin {"invalid", "object"}) =>
          (response = 500 /\ sns_calls = <<>>)
    /\ (ReachedVerification /\ invocation.body.json = "object"
           /\ ~invocation.topic_env) =>
          (response = 500 /\ sns_calls = <<>>)

\* A correctly signed checkout event arrived while SNS_TOPIC_ARN was not
\* set: it was answered 500 and no publish call was made.
Wit_C34_topic_missing_500 ==
    /\ ReachedVerification /\ ReallyVerified
    /\ invocation.body.type = "checkout.session.completed"
    /\ invocation.body.json = "object"
    /\ ~invocation.topic_env
    /\ invocation.publish_ok
    /\ response = 500
    /\ sns_calls = <<>>

-----------------------------------------------------------------------------
(***************************************************************************)
(* Properties of the batch consumers                                       *)
(***************************************************************************)

\* The handler of consumer c has returned after running its loop.
LoopReturned(c) == inv[c].phase = "returned" /\ inv[c].setup = "ok"
\* The handler of consumer c has returned from its outer except.
SetupFailed(c) == inv[c].phase = "returned" /\ inv[c].setup # "ok"
ReportedIds(c) == {inv[c].report[k] : k \in 1..Len(inv[c].report)}
BatchIds(c) == {inv[c].records[k].messageId : k \in 1..Len(inv[c].records)}
FailedIds(c) ==
    {inv[c].records[k].messageId :
        k \in {j \in 1..Len(inv[c].results) : ~inv[c].results[j]}}

\* C1: when the loop ran, the identifiers in batchItemFailures are exactly
\* those of the records whose processing failed, wherever they stand in the
\* batch.
Claim_C1_report_is_failed_set ==
    \A c \in Consumers : LoopReturned(c) => ReportedIds(c) = FailedIds(c)

\* C2: a failed record does not stop the batch: every record of the batch,
\* before and after the failed one, has been dispatched, and every
\* order_created, payment_confirmed and order_updated record that succeeded
\* has its item in the orders table.
Thm_C2_batch_continues ==
    \A c \in Consumers : LoopReturned(c) =>
        /\ Len(inv[c].results) = Len(inv[c].records)
        /\ c = "order" =>
             \A k \in 1..Len(inv[c].records) :
                LET m == ParseRecord(inv[c].records[k].body).actual_message IN
                inv[c].results[k] =>
                    /\ (m.event_type = "order_created" /\ Truthy(m.session_id)) =>
                          /\ m.session_id \in DOMAIN orders
                          /\ orders[m.session_id].session_id = m.session_id
                    /\ m.event_type = "payment_confirmed" =>
                          /\ m.payment_intent_id \in DOMAIN orders
                          /\ orders[m.payment_intent_id].status = "payment_confirmed"
                    /\ m.event_type = "order_updated" =>
                          /\ m.invoice_id \in DOMAIN orders
                          /\ orders[m.invoice_id].subscription_id = m.subscription_id

\* The first record of a batch of the order consumer failed and the second,
\* an order_created event, succeeded and is in the table.
Wit_C2_success_after_failure ==
    /\ LoopReturned("order")
    /\ Len(inv["order"].records) = 2
    /\ inv["order"].results = <<FALSE, TRUE>>
    /\ inv["order"].records[2].body = json_dumps(OrderCreatedEvent)
    /\ "cs_1" \in DOMAIN orders

\* C3: with a transport that redelivers exactly the reported records, no
\* record whose processing failed is acknowledged: every record the transport
\* deleted was processed successfully.
Claim_C3_no_failed_item_lost ==
    \A c \in Consumers : \A m \in settled[c] : m.succeeded

\* C4: when the setup of the batch fails, the report names every record of
\* the batch and no record was dispatched.
Thm_C4_setup_failure_fails_all ==
    \A c \in Consumers : SetupFailed(c) =>
        /\ ReportedIds(c) = BatchIds(c)
        /\ Len(inv[c].report) = Len(inv[c].records)
        /\ inv[c].results = <<>>
        /\ inv[c].i = 1
        /\ inv[c].processed_count = 0 /\ inv[c].failed_count = 0

\* The secret fetch of the email consumer raised on a batch of two records,
\* one of them an order_created event with a customer email.
Wit_C4_secret_fetch_raised ==
    /\ SetupFailed("email")
    /\ inv["email"].setup = "raise"
    /\ Len(inv["email"].records) = 2
    /\ \E k \in 1..2 : inv["email"].records[k].body = json_dumps(OrderCreatedEvent)

\* The event types consumer c has a handler for.
Registered(c) ==
    CASE c = "order" -> {"order_created", "payment_confirmed", "order_updated"}
      [] c = "email" -> {"order_created", "payment_confirmed"}
      [] c = "inventory" -> {"order_created", "inventory_update"}

\* C20: in every consumer, a record whose event_type has no registered
\* handler, a missing event_type included, is counted as succeeded and its
\* identifier is not in the failure report.
Claim_C20_unknown_type_succeeds ==
    \A c \in Consumers : LoopReturned(c) =>
        \A k \in 1..Len(inv[c].records) :
            LET parsed == ParseRecord(inv[c].records[k].body) IN
            (~parsed.raised
                /\ Get(parsed.actual_message.event_type) \notin Registered(c)) =>
                /\ inv[c].results[k]
                /\ inv[c].records[k].messageId \notin ReportedIds(c)

\* The step is one turn of the loop of consumer c, and the body of its record.
LoopStep(c) ==
    /\ inv[c].phase = "running"
    /\ inv[c].i <= Len(inv[c].records)
    /\ inv'[c].phase = "running"
    /\ inv'[c].i = inv[c].i + 1
LoopBody(c) == inv[c].records[inv[c].i].body
\* The turn counted its record as processed, or as failed.
CountedProcessed(c) ==
    /\ inv'[c].results = Append(inv[c].results, TRUE)
    /\ inv'[c].processed_count = inv[c].processed_count + 1
    /\ inv'[c].failed_count = inv[c].failed_count
CountedFailed(c) ==
    /\ inv'[c].results = Append(inv[c].results, FALSE)
    /\ inv'[c].processed_count = inv[c].processed_count
    /\ inv'[c].failed_count = inv[c].failed_count + 1
\* The turn did to the store, the outbox and the counters what handing the
\* event m to the handler of its type does, the call to DynamoDB or SES
\* returning or not.
DispatchedWith(c, m) ==
    \E io_ok \in BOOLEAN :
        LET order == OrderDispatch(m, orders, io_ok, clock)
            email == EmailDispatch(m, io_ok)
            success == CASE c = "order" -> order.success
                         [] c = "email" -> email.success
                         [] c = "inventory" -> InventoryDispatch(m)
        IN  /\ orders' = IF c = "order" THEN order.table ELSE orders
            /\ outbox' = IF c = "email" THEN outbox \cup email.mails ELSE outbox
            /\ IF success THEN CountedProcessed(c) ELSE CountedFailed(c)

\* C25: in every consumer, a body that is the serialized event and a body
\* that is a relay envelope with the serialized event under Message are
\* processed as the event itself: same handler, same effect on the store and
\* the outbox, same outcome. One level only is unwrapped: an envelope inside
\* an envelope is a dict with no event_type. A relay envelope whose Message
\* is not JSON counts as one failed record, has no effect, and the loop goes
\* on to the next record.
Thm_C25_relay_as_direct ==
    [][\A c \in Consumers : LoopStep(c) =>
        LET body == LoopBody(c) IN
        /\ (body.wraps <= 1 /\ ~body.garbage) => DispatchedWith(c, body.event)
        /\ (body.wraps <= 1 /\ body.garbage) =>
              (CountedFailed(c) /\ orders' = orders /\ outbox' = outbox)
        /\ body.wraps > 1 => DispatchedWith(c, EmptyDict)]_vars

\* One batch of the order consumer held a relay envelope with an unparseable
\* Message and then the event inside a relay envelope: the first alone
\* failed, the second was processed and its order is stored.
Wit_C25_relayed_after_garbage ==
    /\ inv["order"].phase = "running"
    /\ Len(inv["order"].records) = 2
    /\ inv["order"].records[1].body = RelayWrapped(Garbage)
    /\ inv["order"].records[2].body = RelayWrapped(json_dumps(OrderCreatedEvent))
    /\ inv["order"].results = <<FALSE, TRUE>>
    /\ "cs_1" \in DOMAIN orders

\* The number and the currency a formatted amount shows.
Displayed(formatted) ==
    [whole |-> formatted.whole, hundredths |-> formatted.hundredths,
     currency |-> formatted.currency]
\* The amount an email handler renders for the event m: amount_total for an
\* order confirmation, amount for a payment confirmation.
RenderedAmount(m) ==
    IF Get(m.event_type) = "order_created" THEN GetAmountOr(m.amount_total, 0)
    ELSE GetAmountOr(m.amount, 0)

\* C24: the amount an email handler renders is what format_amount_for_display
\* shows for it: the amount itself, with no decimals, for a currency of the
\* zero-decimal set, and amount / 100 with two decimals for every other
\* currency. After each record of the email consumer that sent a mail, the
\* outbox holds a mail to its customer whose amount displays that number and
\* that currency.
Claim_C24_zero_decimal_not_divided ==
    [][(/\ LoopStep("email")
        /\ ~ParseRecord(LoopBody("email")).raised
        /\ Get(ParseRecord(LoopBody("email")).actual_message.event_type)
              \in {"order_created", "payment_confirmed"}
        /\ Truthy(Get(ParseRecord(LoopBody("email")).actual_message.customer_email))
        /\ CountedProcessed("email")) =>
       LET m == ParseRecord(LoopBody("email")).actual_message IN
       \E mail \in outbox' :
           /\ mail.to = m.customer_email
           /\ Displayed(mail.amount) =
                Displayed(format_amount_for_display(
                    RenderedAmount(m), GetOr(m.currency, "USD")))]_vars

-----------------------------------------------------------------------------
(***************************************************************************)
(* Properties of the order store                                           *)
(***************************************************************************)

\* The step is one turn of the order consumer's loop.
OrderStep ==
    /\ inv["order"].phase = "running"
    /\ inv["order"].i <= Len(inv["order"].records)
    /\ inv'["order"].phase = "running"
    /\ inv'["order"].i = inv["order"].i + 1
\* The record of that turn parsed, its event type, and whether the turn
\* counted it as processed.
StepParsed == ParseRecord(inv["order"].records[inv["order"].i].body)
StepMessage == StepParsed.actual_message
StepType == IF StepParsed.raised THEN "unparsed" ELSE Get(StepMessage.event_type)
StepSucceeded == inv'["order"].results[inv["order"].i]
\* The key an order_created event is stored under.
CreatedKey(m) == Or(m.session_id, m.payment_intent_id)
\* The item that applying the order_created event m at time t puts.
CreatedItem(m, t) == process_order_created(m, <<>>, TRUE, t).table[CreatedKey(m)]

\* C14: when an order_created event is processed and the store already holds,
\* under its key, the record that an earlier processing of the same event
\* put, the store holds the same keys afterwards and every field of the
\* record is what it was.
Claim_C14_order_created_idempotent ==
    [][(OrderStep /\ StepType = "order_created" /\ StepSucceeded) =>
        LET k == CreatedKey(StepMessage) IN
        (k \in DOMAIN orders
            /\ orders[k] = CreatedItem(StepMessage, orders[k].created_at)) =>
            (DOMAIN orders' = DOMAIN orders /\ orders'[k] = orders[k])]_vars

\* C15: when a payment_confirmed event is processed and the store holds no
\* record under its key, the record is counted as failed and the store is
\* left as it was.
Claim_C15_missing_record_fails ==
    [][(OrderStep /\ StepType = "payment_confirmed"
            /\ Truthy(Get(StepMessage.payment_intent_id))
            /\ StepMessage.payment_intent_id \notin DOMAIN orders) =>
        (~StepSucceeded /\ orders' = orders)]_vars

\* The transition table: Created -> PaymentConfirmed, Created -> Updated.
Forward(a, b) == a = b \/ (a = "created" /\ b \in {"payment_confirmed", "updated"})

\* C16: in every step, every record keeps its key and its status stays or
\* moves forward along the transition table; a status of PaymentConfirmed or
\* Updated is never set back to Created.
Claim_C16_status_moves_forward ==
    [][\A k \in DOMAIN orders :
          orders[k].status \in {"created", "payment_confirmed", "updated"} =>
              /\ k \in DOMAIN orders'
              /\ Forward(orders[k].status, orders'[k].status)]_vars

\* C17: when the payment_confirmed event of payment intent p is processed
\* successfully and the store holds the record that the order_created event
\* of session s and payment intent p put under s, that record has status
\* PaymentConfirmed and a confirmation time afterwards.
Claim_C17_order_record_confirmed ==
    [][(OrderStep /\ StepType = "payment_confirmed" /\ StepSucceeded) =>
        \A s \in DOMAIN orders :
            (orders[s].session_id = s
                /\ orders[s].payment_intent_id = StepMessage.payment_intent_id) =>
                /\ orders'[s].status = "payment_confirmed"
                /\ orders'[s].payment_confirmed_at # AbsentAmount]_vars

\* C18: when an order_created event and a payment_confirmed event address
\* the same key, the record holds the order data and status PaymentConfirmed
\* once both are processed, whichever comes second: the confirmation after
\* the order keeps the order data, and the order after the confirmation keeps
\* the confirmation.
Claim_C18_arrival_order_independent ==
    [][(OrderStep /\ StepSucceeded) =>
        /\ StepType = "payment_confirmed" =>
            LET k == StepMessage.payment_intent_id IN
            (k \in DOMAIN orders /\ orders[k].status = "created") =>
                /\ orders'[k].status = "payment_confirmed"
                /\ orders'[k].customer_email = orders[k].customer_email
                /\ orders'[k].amount_total = orders[k].amount_total
        /\ StepType = "order_created" =>
            LET k == CreatedKey(StepMessage) IN
            (k \in DOMAIN orders /\ orders[k].status = "payment_confirmed") =>
                /\ orders'[k].status = "payment_confirmed"
                /\ orders'[k].payment_confirmed_at # AbsentAmount
                /\ orders'[k].customer_email = StepMessage.customer_email
                /\ orders'[k].amount_total = StepMessage.amount_total]_vars

\* The key the event of the step addresses.
StepKey ==
    CASE StepType = "order_created" -> CreatedKey(StepMessage)
      [] StepType = "payment_confirmed" -> Get(StepMessage.payment_intent_id)
      [] StepType = "order_updated" -> Get(StepMessage.invoice_id)
      [] OTHER -> None
UpdateTypes == {"payment_confirmed", "order_updated"}

\* C21: a key enters the store only when an order_created event is
\* processed: processing a payment_confirmed or an order_updated event leaves
\* the set of keys as it was, and no step removes a key.
Claim_C21_only_order_created_creates ==
    [][/\ DOMAIN orders \subseteq DOMAIN orders'
       /\ (OrderStep /\ StepType \in UpdateTypes) => DOMAIN orders' = DOMAIN orders
       /\ DOMAIN orders' # DOMAIN orders =>
             (OrderStep /\ StepType = "order_created")]_vars

\* The record under the key of the step's event already holds what the
\* event sets: the status and a confirmation time for payment_confirmed, the
\* subscription and the amount paid that the event carries for order_updated.
AlreadyApplied ==
    /\ StepKey \in DOMAIN orders
    /\ orders[StepKey].updated_at # AbsentAmount
    /\ StepType = "payment_confirmed" =>
          /\ orders[StepKey].status = "payment_confirmed"
          /\ orders[StepKey].payment_confirmed_at # AbsentAmount
    /\ StepType = "order_updated" =>
          /\ Truthy(StepMessage.subscription_id) =>
                orders[StepKey].subscription_id = StepMessage.subscription_id
          /\ StepMessage.amount_paid \notin {AbsentAmount, NoneAmount, 0} =>
                orders[StepKey].amount_paid = StepMessage.amount_paid

\* C23: processing a payment_confirmed or order_updated envelope whose
\* effect the store already holds leaves the store in the same state: the
\* same keys and, in every record, every field as it is, but for updated_at,
\* which order_updated refreshes by design. An envelope with no identifier
\* fails every time it is processed.
Claim_C23_update_idempotent ==
    [][(OrderStep /\ StepType \in UpdateTypes) =>
        /\ (StepSucceeded /\ AlreadyApplied) =>
              /\ DOMAIN orders' = DOMAIN orders
              /\ \A k \in DOMAIN orders : \A f \in DOMAIN orders[k] :
                    f # "updated_at" => orders'[k][f] = orders[k][f]
        /\ ~Truthy(StepKey) => ~StepSucceeded]_vars

\* C26: processing an order_updated event sets subscription_id on the
\* record exactly when the event carries one, sets amount_paid exactly when
\* the event carries one, 0 included, always sets updated_at, and leaves every
\* other field of the record as it is.
Claim_C26_order_updated_frame ==
    [][(OrderStep /\ StepType = "order_updated" /\ StepSucceeded
            /\ StepKey \in DOMAIN orders) =>
        LET old == orders[StepKey]
            new == orders'[StepKey]
            m == StepMessage
        IN  /\ new.subscription_id =
                  IF Truthy(m.subscription_id) THEN m.subscription_id
                  ELSE old.subscription_id
            /\ new.amount_paid =
                  IF m.amount_paid \notin {AbsentAmount, NoneAmount} THEN m.amount_paid
                  ELSE old.amount_paid
            /\ new.updated_at = clock
            /\ \A f \in DOMAIN old \ {"subscription_id", "amount_paid", "updated_at"} :
                  new[f] = old[f]]_vars

\* C27: processing an order_updated event for a record whose status is
\* Created moves the status to Updated.
Claim_C27_updated_reachable ==
    [][(OrderStep /\ StepType = "order_updated" /\ StepSucceeded
            /\ StepKey \in DOMAIN orders
            /\ orders[StepKey].status = "created") =>
          orders'[StepKey].status = "updated"]_vars

-----------------------------------------------------------------------------
(***************************************************************************)
(* Properties of what the consumers count as processed                     *)
(***************************************************************************)

\* The key under which the order consumer stores or updates for the event m.
EventKey(m) ==
    CASE Get(m.event_type) = "order_created" -> CreatedKey(m)
      [] Get(m.event_type) = "payment_confirmed" -> Get(m.payment_intent_id)
      [] Get(m.event_type) = "order_updated" -> Get(m.invoice_id)
      [] OTHER -> None
\* The event m lacks what the handler of consumer c needs: the key of the
\* record in the order consumer, the address of the customer in the email
\* consumer.
MissingData(c, m) ==
    /\ Get(m.event_type) \in Registered(c)
    /\ CASE c = "order" -> ~Truthy(EventKey(m))
         [] c = "email" -> ~Truthy(Get(m.customer_email))
\* After the step the effect of the handler of consumer c for the event m is
\* there: a record under the key of the event, a mail to its customer.
Accomplished(c, m) ==
    CASE c = "order" -> Truthy(EventKey(m)) /\ EventKey(m) \in DOMAIN orders'
      [] c = "email" -> \E mail \in outbox' : mail.to = Get(m.customer_email)

\* C28: in the order and the email consumer a record is counted as
\* processed only if its body parsed and either its event type has no
\* registered handler or the effect of its handler is there after the step
\* (the record written, the mail sent); and a record of a registered type
\* that lacks the key of the order, or the address of the customer, is
\* counted as failed.
Claim_C28_no_silent_acknowledgement ==
    [][\A c \in {"order", "email"} : LoopStep(c) =>
        LET parsed == ParseRecord(LoopBody(c))
            m == parsed.actual_message
        IN  /\ CountedProcessed(c) =>
                  /\ ~parsed.raised
                  /\ \/ Get(m.event_type) \notin Registered(c)
                     \/ Accomplished(c, m)
            /\ (~parsed.raised /\ MissingData(c, m)) => CountedFailed(c)]_vars

\* The step put or updated the record under key k and left the others.
TouchedOnly(k) ==
    /\ DOMAIN orders' = DOMAIN orders \cup {k}
    /\ \A other \in DOMAIN orders \ {k} : orders'[other] = orders[other]

\* C32: an order_created event with no session_id and a payment_intent_id,
\* once processed, is the record under its payment_intent_id, in status
\* created, and no other record changed; if the write failed the store is as
\* it was. That key is the one a payment_confirmed event with the same
\* payment_intent_id updates. An order_created event with neither identifier
\* is counted as failed and leaves the store as it was.
Thm_C32_fallback_key ==
    [][OrderStep =>
        LET m == StepMessage
            payment_intent_id == Get(m.payment_intent_id)
        IN
        /\ (StepType = "order_created" /\ ~Truthy(Get(m.session_id))) =>
              IF Truthy(payment_intent_id)
              THEN \/ /\ StepSucceeded
                      /\ TouchedOnly(payment_intent_id)
                      /\ orders'[payment_intent_id].order_id = payment_intent_id
                      /\ orders'[payment_intent_id].payment_intent_id = payment_intent_id
                      /\ orders'[payment_intent_id].status = "created"
                   \/ ~StepSucceeded /\ orders' = orders
              ELSE CountedFailed("order") /\ orders' = orders
        /\ (StepType = "payment_confirmed" /\ StepSucceeded) =>
              /\ TouchedOnly(payment_intent_id)
              /\ orders'[payment_intent_id].status = "payment_confirmed"
              /\ payment_intent_id \in DOMAIN orders =>
                    orders'[payment_intent_id].order_id = orders[payment_intent_id].order_id]_vars

\* One batch of the order consumer held an order_created event with no
\* identifier and one with a payment_intent_id only: the first failed, the
\* second is the only record of the store, under its payment_intent_id.
Wit_C32_stored_under_payment_intent ==
    /\ LoopReturned("order")
    /\ Len(inv["order"].records) = 2
    /\ inv["order"].records[1].body = json_dumps(NoIdentifierEvent)
    /\ inv["order"].records[2].body = json_dumps(FallbackKeyEvent)
    /\ inv["order"].results = <<FALSE, TRUE>>
    /\ DOMAIN orders = {"pi_1"}
    /\ orders["pi_1"].order_id = "pi_1"

\* The step is the return of consumer c after its loop.
ReturnStep(c) ==
    /\ inv[c].phase = "running"
    /\ inv[c].setup = "ok"
    /\ inv'[c].phase = "returned"

\* C33: with CloudWatch up or down, every turn of a consumer's loop does to
\* the store, the outbox and the counters what the parsing and the handler
\* of the record give with no regard to the metric calls (a record that does
\* not parse is counted as failed and changes nothing), and the report
\* returned after the loop is the one computed from the records and
\* failed_count alone.
Thm_C33_metrics_sink_no_effect ==
    [][\A c \in Consumers :
        /\ LoopStep(c) =>
              LET parsed == ParseRecord(LoopBody(c)) IN
              IF parsed.raised
              THEN CountedFailed(c) /\ orders' = orders /\ outbox' = outbox
              ELSE DispatchedWith(c, parsed.actual_message)
        /\ ReturnStep(c) =>
              /\ inv'[c].report =
                    BatchItemFailures(inv[c].records, inv[c].failed_count)
              /\ inv'[c].results = inv[c].results
              /\ orders' = orders]_vars

\* CloudWatch went down before the order consumer was invoked; the consumer
\* has returned from a batch of an order_created event, stored, and a body
\* that did not parse, reported; it made its metric calls.
Wit_C33_processed_during_outage ==
    /\ ~cloudwatch_up
    /\ LoopReturned("order")
    /\ Len(inv["order"].records) = 2
    /\ inv["order"].records[1].body = json_dumps(OrderCreatedEvent)
    /\ inv["order"].results = <<TRUE, FALSE>>
    /\ "cs_1" \in DOMAIN orders
    /\ inv["order"].report = <<inv["order"].records[2].messageId>>
    /\ metrics["order"] # <<>>

\* The number of records of the invocation of consumer c that succeeded.
SucceededCount(c) == Cardinality({k \in 1..Len(inv[c].results) : inv[c].results[k]})

\* C31: when the loop of a consumer has completed and the handler has
\* returned, every record was counted once: processed_count is the number
\* of records that succeeded, processed_count + failed_count is the number
\* of records of the batch, and the failure report holds failed_count
\* identifiers, all different.
Thm_C31_counts_add_up ==
    \A c \in Consumers : LoopReturned(c) =>
        /\ Len(inv[c].results) = Len(inv[c].records)
        /\ inv[c].processed_count = SucceededCount(c)
        /\ inv[c].processed_count + inv[c].failed_count = Len(inv[c].records)
        /\ Len(inv[c].report) = inv[c].failed_count
        /\ Cardinality(ReportedIds(c)) = inv[c].failed_count

\* The inventory consumer has returned from a batch of two records of which
\* the first succeeded and the second failed: one identifier is reported.
Wit_C31_one_of_two_failed ==
    /\ LoopReturned("inventory")
    /\ inv["inventory"].results = <<TRUE, FALSE>>
    /\ inv["inventory"].processed_count = 1
    /\ inv["inventory"].failed_count = 1
    /\ Len(inv["inventory"].report) = 1

\* The names under which a consumer emits the number of records it
\* processed, the number that failed, and its count of batches.
ProcessedCountNames == {"MessagesProcessed", "InventoryMessagesProcessed"}
FailedCountNames == {"MessageProcessingFailures", "InventoryMessageFailures"}
BatchesProcessedNames == {"EmailBatchesProcessed", "InventoryBatchesProcessed"}
\* The calls of consumer c whose metric name is in names.
Emitted(c, names) ==
    {k \in 1..Len(metrics[c]) : metrics[c][k].metric_name \in names}

\* C29: when the loop of a consumer has run and the handler has returned,
\* the handler's own code has emitted exactly one processed-count metric,
\* whose value is the number of records that succeeded; a failed-count
\* metric exactly when some record failed, once, with the number of failed
\* records as its value; exactly one batches-processed counter, of value 1;
\* and nothing else: no metric per record.
Claim_C29_batch_metrics ==
    \A c \in Consumers : LoopReturned(c) =>
        /\ \E k \in 1..Len(metrics[c]) :
              /\ Emitted(c, ProcessedCountNames) = {k}
              /\ metrics[c][k].value = inv[c].processed_count
        /\ IF inv[c].failed_count = 0 THEN Emitted(c, FailedCountNames) = {}
           ELSE \E k \in 1..Len(metrics[c]) :
                  /\ Emitted(c, FailedCountNames) = {k}
                  /\ metrics[c][k].value = inv[c].failed_count
        /\ \E k \in 1..Len(metrics[c]) :
              /\ Emitted(c, BatchesProcessedNames) = {k}
              /\ metrics[c][k].value = 1
        /\ Emitted(c, ProcessedCountNames \cup FailedCountNames
                        \cup BatchesProcessedNames) = 1..Len(metrics[c])

-----------------------------------------------------------------------------
(***************************************************************************)
(* From the webhook to the orders table                                    *)
(***************************************************************************)

\* What the order queue receives for a message the topic accepted: the
\* published text itself (raw delivery) or the text under "Message" in an SNS
\* notification.
Delivered(call, wrapped) == IF wrapped THEN RelayWrapped(call.Message) ELSE call.Message

\* The subscription of the order queue: a message the topic accepted is put
\* on the queue, possibly more than once.
FanOut ==
    \E k \in 1..Len(sns), wrapped \in BOOLEAN :
        Send("order", Delivered(sns[k], wrapped))

\* A webhook request that Stripe itself signed, just now, with the stored
\* secret, handled with the secret and the topic of the function in place.
\* Requests are taken before the first delivery: the handler reads and writes
\* nothing of the queue or the table, and a delivery only reads what the
\* topic holds, so every reachable state is reached in that order.
VerifiedWebhook ==
    /\ next_id = 1
    /\ WebhookHandler
    /\ ReallyVerified'
    /\ invocation'.secret_fetch = "ok"
    /\ invocation'.topic_env

\* The pipeline from the webhook to the orders table: requests are handled,
\* the topic delivers what it accepted to the order queue, at least once,
\* and the order consumer handles its batches.
PipelineNext ==
    \/ VerifiedWebhook
    \/ FanOut
    \/ Receive("order")
    \/ ProcessRecord("order")
    \/ Return("order")
    \/ Settle("order")

\* Signed webhooks, published, delivered to the order queue and consumed.
PipelineInit == VerifyIdle /\ IngressIdle /\ BatchIdle
SpecPipeline == PipelineInit /\ [][PipelineNext]_vars

\* The messages the topic accepted.
Accepted == {sns[k] : k \in 1..Len(sns)}

\* C19: for every signed checkout.session.completed webhook with session id
\* s and amount_total a whose order_created message the topic accepted, once
\* the order consumer has processed a delivery of that message successfully,
\* direct or inside a relay envelope, the orders table holds a record with
\* order_id s, status created and amount_total a.
Thm_C19_end_to_end ==
    \A ev \in Bodies :
        (ev.json = "object" /\ ev.type = "checkout.session.completed"
            /\ Truthy(ev.id)) =>
        LET call == PublishCall(OrderCreatedMessage(ev), "order_created") IN
        \A k \in 1..Len(inv["order"].results) :
            (call \in Accepted
                /\ inv["order"].records[k].body
                       \in {Delivered(call, w) : w \in BOOLEAN}
                /\ inv["order"].results[k]) =>
                /\ ev.id \in DOMAIN orders
                /\ orders[ev.id].order_id = ev.id
                /\ orders[ev.id].status = "created"
                /\ orders[ev.id].amount_total = ev.amount_total

\* The signed checkout of session cs_1 for 2500 was answered 200, its message
\* reached the order consumer inside a relay envelope and was processed, and
\* the table holds the order.
Wit_C19_relayed_checkout_stored ==
    /\ response = 200 /\ ReallyVerified
    /\ invocation.body.type = "checkout.session.completed"
    /\ invocation.body.id = "cs_1"
    /\ LoopReturned("order")
    /\ \E k \in 1..Len(inv["order"].records) :
          /\ inv["order"].records[k].body = Delivered(sns_calls[1], TRUE)
          /\ inv["order"].results[k]
    /\ "cs_1" \in DOMAIN orders
    /\ orders["cs_1"].amount_total = 2500

====
